---- MODULE Spec2Model ----
(***************************************************************************)
(* State-machine model of the CodeRabbit report client                     *)
(* (registry/default/lib/client.ts and its published copy) and of the      *)
(* report storage adapters (localStorage, Postgres, MySQL, Supabase), and *)
(* of the useCodeRabbit hook that drives both.                             *)
(*                                                                         *)
(* JavaScript values are tagged records so that undefined, null, strings,  *)
(* numbers, arrays and objects can live in one variable.                   *)
(***************************************************************************)
EXTENDS Integers, Sequences, FiniteSets, TLC

VARIABLES
    build,          \* which copy of the client runs: "source" | "published"
    config,         \* the CodeRabbitClientConfig handed to the constructor
    host,           \* the host runtime's globals (process, Deno)
    apiKey,         \* CodeRabbitClient.apiKey   (string | null)
    baseUrl,        \* CodeRabbitClient.baseUrl
    timeout,        \* CodeRabbitClient.timeout  (ms)
    pc,             \* position of generateReport: idle | fetch | json | done
    request,        \* the ReportGenerateRequest of the running call
    controller,     \* AbortController: none | live | aborted
    timerPending,   \* the setTimeout of line 120 is armed and not yet cleared/fired
    clock,          \* ms on the timer of line 120 since it was armed; 0 once cleared
    transport,      \* the remote side of the call: idle | pending | hung | answered | failed
    fetchLog,       \* every call made to fetch, in order
    response,       \* the Response fetch resolved with
    outcome,        \* how generateReport settled
    backend,        \* the ReportStorageAdapter in use: local | postgres | mysql | supabase
    store,          \* the adapter's reports (array in localStorage / table rows), in insertion order
    wallClock,      \* Date.now() / NOW(): the wall clock storage operations read (ms)
    created,        \* how many times create() has inserted a report
    lastOp,         \* the storage operation that ran last, its arguments and how it settled
    hookOptions,    \* the UseCodeRabbitOptions the hook was rendered with
    isGenerating,   \* the hook's isGenerating state
    hookError,      \* the hook's error state (string | null)
    calls,          \* the invocations of the hook's generateReport so far: position, locals, effects
    creating        \* the calls of MySQLStorageAdapter.create so far: position, inserted row, returned id

vars == <<build, config, host, apiKey, baseUrl, timeout, pc, request,
          controller, timerPending, clock, transport, fetchLog, response,
          outcome, backend, store, wallClock, created, lastOp,
          hookOptions, isGenerating, hookError, calls, creating>>

clientFields == <<build, config, host, apiKey, baseUrl, timeout>>

clientVars == <<clientFields, pc, request, controller, timerPending, clock,
                transport, fetchLog, response, outcome>>

storageVars == <<backend, store, wallClock, created, lastOp>>

hookVars == <<hookOptions, isGenerating, hookError, calls>>

-----------------------------------------------------------------------------
(* Bounds of the exploration *)

MaxOptional == 1    \* optional request fields present in one request
MaxIssues == 2      \* entries of issues[] in a flat error body
MaxResults == 2     \* entries of result.data in a success body
MaxLate == 1        \* how long after its due time (ms) the clock is still sampled
MaxCalls == 2       \* invocations of the hook's generateReport
MaxCreators == 3    \* calls of MySQLStorageAdapter.create on one table

-----------------------------------------------------------------------------
(* JavaScript values *)

Undef == [t |-> "undefined"]
Null == [t |-> "null"]
Str(s) == [t |-> "string", v |-> s]
Num(n) == [t |-> "number", v |-> n]
Arr(s) == [t |-> "array", v |-> s]
Obj(f) == [t |-> "object", f |-> f]
Fn(name) == [t |-> "function", v |-> name]

EmptyProps == [k \in {} |-> Undef]

\* v === undefined || v === null
Nullish(v) == v.t \in {"undefined", "null"}

\* a ?? b
Coalesce(a, b) == IF Nullish(a) THEN b ELSE a

\* ToBoolean
Truthy(v) ==
    CASE v.t \in {"undefined", "null"} -> FALSE
      [] v.t = "string" -> v.v # ""
      [] v.t = "number" -> v.v # 0
      [] OTHER -> TRUE

\* own property of a plain property map (undefined when missing)
Prop(f, k) == IF k \in DOMAIN f THEN f[k] ELSE Undef

\* { ...a, ...b }
Spread(a, b) == [k \in DOMAIN a \cup DOMAIN b |-> IF k \in DOMAIN b THEN b[k] ELSE a[k]]

\* JSON.parse(JSON.stringify(o)) of a flat property map: properties whose
\* value is undefined are not serialised
JsonRoundTrip(f) == [k \in {j \in DOMAIN f : f[j] # Undef} |-> f[k]]

\* an object built from a property map, leaving out the undefined entries
ObjOf(f) == Obj(JsonRoundTrip(f))

-----------------------------------------------------------------------------
(* Constants of the client *)

API_BASE_URL == "https://api.coderabbit.ai/api"
API_VERSION == "v1"
API_TIMEOUT_MS == 600000
ENV_KEY == "CODERABBIT_API_KEY"

ERROR_MESSAGES ==
    [UNAUTHORIZED |-> "CodeRabbit Pro subscription required. Please upgrade your plan at https://coderabbit.ai to use the Reports API.",
     FORBIDDEN |-> "Access denied. Please check your API key permissions.",
     TOO_MANY_REQUESTS |-> "Rate limit exceeded. Please wait a few minutes before trying again.",
     BAD_REQUEST |-> "Invalid request. Please check your report parameters."]

CONFIG_ERROR == "CODERABBIT_API_KEY not configured. Set environment variable or pass apiKey in config."

-----------------------------------------------------------------------------
(* Constructor: resolution of apiKey, baseUrl and timeout *)

\* getApiKeyFromEnv(): process.env first, then Deno.env, then null
getApiKeyFromEnv(h) ==
    IF h.process # Undef /\ Truthy(Prop(h.process.f, "env"))
    THEN Coalesce(Prop(Prop(h.process.f, "env").f, ENV_KEY), Null)
    ELSE IF h.Deno # Undef /\ Truthy(Prop(h.Deno.f, "env"))
    THEN Coalesce(Prop(Prop(h.Deno.f, "env").f, ENV_KEY), Null)
    ELSE Null

resolveApiKey(c, h) == Coalesce(Prop(c, "apiKey"), getApiKeyFromEnv(h))
resolveBaseUrl(c) == Coalesce(Prop(c, "baseUrl"), Str(API_BASE_URL))
resolveTimeout(c) == Coalesce(Prop(c, "timeout"), Num(API_TIMEOUT_MS))

\* a mutation of isConfigured that forgets the empty string
isConfiguredNullOnly(key) == key # Null

isConfigured(key) == key # Null /\ Len(key.v) > 0

-----------------------------------------------------------------------------
(* Inputs: constructor arguments and host runtimes *)

NoHost == [process |-> Undef, Deno |-> Undef]
NodeHost(envVars) == [process |-> Obj([env |-> Obj(envVars)]), Deno |-> Undef]

DenoHost(envVars) == [process |-> Undef, Deno |-> Obj([env |-> Obj(envVars)])]
\* a runtime that has both globals (Deno with Node compatibility)
BothHost(nodeVars, denoVars) ==
    [process |-> Obj([env |-> Obj(nodeVars)]), Deno |-> Obj([env |-> Obj(denoVars)])]

ClientHosts ==
    {NoHost,
     NodeHost([k \in {ENV_KEY} |-> Str("sk-env")]),
     DenoHost([k \in {ENV_KEY} |-> Str("sk-deno")]),
     BothHost(EmptyProps, [k \in {ENV_KEY} |-> Str("sk-deno")])}

ClientConfigs ==
    {EmptyProps,
     [apiKey |-> Str("")],
     [apiKey |-> Str("sk-cfg"), timeout |-> Num(1500)]}

\* the constructor calls explored: every config against every host, except
\* that an explicit non-empty key, which no host can change, meets only the
\* host without an environment and the Node host
ClientSetups ==
    {cs \in ClientConfigs \X ClientHosts :
        Truthy(Prop(cs[1], "apiKey")) => cs[2].Deno = Undef}

Builds == {"source", "published"}

-----------------------------------------------------------------------------
(* Requests *)

RequiredFields == [from |-> Str("2024-01-01"), to |-> Str("2024-01-31")]

Filter == Obj([parameter |-> Str("REPOSITORY"), operator |-> Str("IN"),
               values |-> Arr(<<Str("web")>>)])

OptionalKeys == {"scheduleRange", "prompt", "promptTemplate", "parameters",
                 "groupBy", "subgroupBy", "orgId"}

OptionalValues ==
    [scheduleRange |-> {Str("Dates")},
     prompt |-> {Str(""), Str("Summarise")},
     promptTemplate |-> {Undef, Str("Sprint Report")},
     parameters |-> {Arr(<<>>), Arr(<<Filter>>)},
     groupBy |-> {Str("TEAM")},
     subgroupBy |-> {Str("USER")},
     orgId |-> {Str(""), Str("org-1")}]

AllOptionalValues == UNION {OptionalValues[k] : k \in OptionalKeys}

Requests ==
    UNION {{Spread(RequiredFields, o) :
              o \in {f \in [ks -> AllOptionalValues] :
                       \A k \in ks : f[k] \in OptionalValues[k]}} :
           ks \in {s \in SUBSET OptionalKeys : Cardinality(s) <= MaxOptional}}

\* the request carries the field (a key written as undefined does not count)
Has(req, k) == k \in DOMAIN req /\ req[k] # Undef

-----------------------------------------------------------------------------
(* Wire payload *)

\* ...(x && { k: x }): spreads one key when x is truthy, nothing otherwise
SpreadIf(req, k) ==
    IF Truthy(Prop(req, k)) THEN [j \in {k} |-> req[k]] ELSE EmptyProps

\* a mutation that sends null for a missing prompt
buildRequestBodyNullPrompt(req) ==
    Spread([from |-> Prop(req, "from"),
            to |-> Prop(req, "to"),
            scheduleRange |-> Coalesce(Prop(req, "scheduleRange"), Str("Dates")),
            parameters |-> Coalesce(Prop(req, "parameters"), Arr(<<>>)),
            prompt |-> Coalesce(Prop(req, "prompt"), Null)],
      Spread(SpreadIf(req, "promptTemplate"),
      Spread(SpreadIf(req, "groupBy"),
      Spread(SpreadIf(req, "subgroupBy"), SpreadIf(req, "orgId")))))

\* a mutation that forgets groupBy
buildRequestBodyNoGroupBy(req) ==
    Spread([from |-> Prop(req, "from"),
            to |-> Prop(req, "to"),
            scheduleRange |-> Coalesce(Prop(req, "scheduleRange"), Str("Dates")),
            parameters |-> Coalesce(Prop(req, "parameters"), Arr(<<>>))],
      Spread(SpreadIf(req, "prompt"),
      Spread(SpreadIf(req, "promptTemplate"),
      Spread(SpreadIf(req, "subgroupBy"), SpreadIf(req, "orgId")))))

\* source build, lines 124-134
buildRequestBody(req) ==
    Spread([from |-> Prop(req, "from"),
            to |-> Prop(req, "to"),
            scheduleRange |-> Coalesce(Prop(req, "scheduleRange"), Str("Dates")),
            parameters |-> Coalesce(Prop(req, "parameters"), Arr(<<>>))],
      Spread(SpreadIf(req, "prompt"),
      Spread(SpreadIf(req, "promptTemplate"),
      Spread(SpreadIf(req, "groupBy"),
      Spread(SpreadIf(req, "subgroupBy"), SpreadIf(req, "orgId"))))))

\* published build, lines 102-105: { scheduleRange: 'Dates', ...request }
buildRequestBodySpread(req) == Spread([scheduleRange |-> Str("Dates")], req)

\* the decoded JSON body put on the wire
wirePayload(b, req) ==
    JsonRoundTrip(IF b = "source" THEN buildRequestBody(req)
                  ELSE buildRequestBodySpread(req))

endpoint(url) == url \o "/" \o API_VERSION \o "/report.generate"

fetchCall(b, url, key, req) ==
    [url |-> endpoint(url), method |-> "POST", apiKeyHeader |-> key,
     body |-> wirePayload(b, req)]

-----------------------------------------------------------------------------
(* Outcomes of generateReport *)

NoOutcome == [kind |-> "none", site |-> "", name |-> "", message |-> "", value |-> Undef]
Returned(v) == [kind |-> "returned", site |-> "", name |-> "", message |-> "", value |-> v]

\* site: the throw statement the error left generateReport from
\*   config (l.114)  api (l.161, 164, 182, 190)  timeout (l.204)  rethrown (l.209)
Thrown(site, name, message) ==
    [kind |-> "thrown", site |-> site, name |-> name, message |-> message, value |-> Undef]

\* errors generateReport constructs itself with `new Error(message)`
ApiError(message) == Thrown("api", "Error", message)

\* errors raised by the runtime inside the try block and rethrown by the catch
JsonSyntaxError == Thrown("rethrown", "SyntaxError", "Unexpected token in JSON")
PropertyTypeError == Thrown("rethrown", "TypeError", "Cannot read properties")
InOperatorTypeError == Thrown("rethrown", "TypeError", "Cannot use 'in' operator")
NotAFunctionTypeError == Thrown("rethrown", "TypeError", "map is not a function")
NetworkTypeError == Thrown("rethrown", "TypeError", "fetch failed")

-----------------------------------------------------------------------------
(* Formatting *)

Digit(d) == ToString(d)

\* String(ms / 1000) for a non-negative integer ms: the shortest decimal,
\* without trailing zeros ("600", "1.5", "0.25", "0.002")
secondsText(ms) ==
    LET whole == ms \div 1000
        frac == ms % 1000
        d1 == frac \div 100
        d2 == (frac \div 10) % 10
        d3 == frac % 10
    IN  IF frac = 0 THEN ToString(whole)
        ELSE ToString(whole) \o "." \o Digit(d1) \o
             (IF d2 = 0 /\ d3 = 0 THEN ""
              ELSE Digit(d2) \o (IF d3 = 0 THEN "" ELSE Digit(d3)))

timeoutMessage(ms) ==
    "CodeRabbit report generation timed out after " \o secondsText(ms) \o "s"

genericMessage(status) == "API request failed with status " \o ToString(status)

\* String(v) as used by `new Error(v)`
jsString(v) ==
    CASE v.t = "string" -> v.v
      [] v.t = "number" -> ToString(v.v)
      [] v.t = "function" -> "function " \o v.v \o "() { [native code] }"
      [] v.t = "undefined" -> ""
      [] v.t = "null" -> "null"
      [] OTHER -> "[object Object]"

-----------------------------------------------------------------------------
(* Error classification *)

\* members every object literal inherits from Object.prototype
ObjectPrototypeMembers == {"constructor", "toString", "valueOf", "hasOwnProperty"}

\* ERROR_MESSAGES[code]: own entries first, then the prototype chain
errorMessageFor(code) ==
    IF code.t # "string" THEN Undef
    ELSE IF code.v \in DOMAIN ERROR_MESSAGES THEN Str(ERROR_MESSAGES[code.v])
    ELSE IF code.v \in ObjectPrototypeMembers
         THEN Fn(IF code.v = "constructor" THEN "Object" ELSE code.v)
    ELSE Undef

\* statusCodeMap[status]
statusCodeMap(status) ==
    CASE status = 401 -> Str("UNAUTHORIZED")
      [] status = 403 -> Str("FORBIDDEN")
      [] status = 429 -> Str("TOO_MANY_REQUESTS")
      [] status = 400 -> Str("BAD_REQUEST")
      [] OTHER -> Undef

\* v.k for a value that is not null or undefined
Member(v, k) == IF v.t = "object" THEN Prop(v.f, k) ELSE Undef

\* a mutation that joins the issues without the space
RECURSIVE joinIssuesNoSpace(_)
joinIssuesNoSpace(s) ==
    IF s = <<>> THEN ""
    ELSE LET m == Member(s[1], "message")
             head == IF Nullish(m) THEN "" ELSE jsString(m)
         IN  IF Len(s) = 1 THEN head ELSE head \o "," \o joinIssuesNoSpace(Tail(s))

\* issues.map((i) => i.message).join(', ')
RECURSIVE joinIssues(_)
joinIssues(s) ==
    IF s = <<>> THEN ""
    ELSE LET m == Member(s[1], "message")
             head == IF Nullish(m) THEN "" ELSE jsString(m)
         IN  IF Len(s) = 1 THEN head ELSE head \o ", " \o joinIssues(Tail(s))

\* lines 170-190: the flat shape { message, code, issues }
classifyFlat(status, errorData, useStatusMap) ==
    LET mappedCode == statusCodeMap(status)
        errorMessage == IF Truthy(Member(errorData, "message"))
                        THEN jsString(Member(errorData, "message"))
                        ELSE genericMessage(status)
        issues == Member(errorData, "issues")
    IN  IF useStatusMap /\ Truthy(mappedCode) /\ Truthy(errorMessageFor(mappedCode))
        THEN ApiError(jsString(errorMessageFor(mappedCode)))
        ELSE IF Nullish(issues) THEN ApiError(errorMessage)
        ELSE IF issues.t # "array" THEN NotAFunctionTypeError
        ELSE LET details == joinIssues(issues.v)
             IN  ApiError(IF details # "" THEN errorMessage \o ": " \o details
                          ELSE errorMessage)

\* lines 155-168: the tRPC shape { error: { message, code, data } }
classifyTrpc(status, errorData) ==
    LET err == Member(errorData, "error")
        data == Member(err, "data")
        errorCode == IF Nullish(data) THEN Undef ELSE Member(data, "code")
    IN  IF Nullish(err) THEN PropertyTypeError
        ELSE IF Truthy(errorCode) /\ Truthy(errorMessageFor(errorCode))
        THEN ApiError(jsString(errorMessageFor(errorCode)))
        ELSE ApiError(IF Truthy(Member(err, "message"))
                      THEN jsString(Member(err, "message"))
                      ELSE genericMessage(status))

\* a mutation that consults the HTTP status before the nested code
classifyErrorStatusFirst(status, body) ==
    IF body.t = "invalid" THEN JsonSyntaxError
    ELSE IF body.t \notin {"object", "array"} THEN InOperatorTypeError
    ELSE IF Truthy(statusCodeMap(status))
    THEN ApiError(jsString(errorMessageFor(statusCodeMap(status))))
    ELSE IF body.t = "object" /\ "error" \in DOMAIN body.f
    THEN classifyTrpc(status, body)
    ELSE classifyFlat(status, body, TRUE)

\* source build, lines 151-191: `await response.json()` and the two shapes
classifyError(status, body) ==
    IF body.t = "invalid" THEN JsonSyntaxError
    ELSE IF body.t \notin {"object", "array"} THEN InOperatorTypeError
    ELSE IF body.t = "object" /\ "error" \in DOMAIN body.f
    THEN classifyTrpc(status, body)
    ELSE classifyFlat(status, body, TRUE)

\* published build, lines 112-120: the flat shape only, no friendly messages
classifyErrorPublished(status, body) ==
    IF body.t = "invalid" THEN JsonSyntaxError
    ELSE IF Nullish(body) THEN PropertyTypeError
    ELSE classifyFlat(status, body, FALSE)

-----------------------------------------------------------------------------
(* Success path *)

\* a mutation that keeps only the well-formed entries
unwrapResultValidated(body) ==
    IF body.t = "invalid" THEN JsonSyntaxError
    ELSE IF Nullish(body) THEN PropertyTypeError
    ELSE IF Nullish(Member(body, "result")) THEN PropertyTypeError
    ELSE LET data == Member(Member(body, "result"), "data")
         IN  IF data.t # "array" THEN Returned(data)
             ELSE Returned(Arr(SelectSeq(data.v,
                     LAMBDA e : e.t = "object" /\ {"group", "report"} \subseteq DOMAIN e.f)))

\* lines 193-198: responseData.result.data
unwrapResult(body) ==
    IF body.t = "invalid" THEN JsonSyntaxError
    ELSE IF Nullish(body) THEN PropertyTypeError
    ELSE IF Nullish(Member(body, "result")) THEN PropertyTypeError
    ELSE Returned(Member(Member(body, "result"), "data"))

isOk(status) == status >= 200 /\ status <= 299

\* what generateReport does with a resolved Response
settle(b, status, body) ==
    IF isOk(status) THEN unwrapResult(body)
    ELSE IF b = "source" THEN classifyError(status, body)
    ELSE classifyErrorPublished(status, body)

-----------------------------------------------------------------------------
(* Inputs: responses of the transport *)

Statuses == {200, 400, 401, 403, 429, 500}

RECURSIVE SeqsUpTo(_, _)
SeqsUpTo(S, n) ==
    IF n = 0 THEN {<<>>}
    ELSE LET shorter == SeqsUpTo(S, n - 1)
         IN  shorter \cup {Append(q, x) : q \in {r \in shorter : Len(r) = n - 1}, x \in S}

Issue(m) == Obj([message |-> Str(m)])
IssueLists ==
    {Arr(q) : q \in SeqsUpTo({Issue("a"), Issue("b")}, MaxIssues)} \cup {Arr(<<Issue("")>>)}

MessageValues == {Undef, Str(""), Str("bad")}

FlatBodies ==
    {ObjOf([message |-> m, code |-> Str("E_FAILED"), issues |-> i]) :
        m \in MessageValues, i \in {Undef} \cup IssueLists}

NestedCodes == {Undef, Str("UNAUTHORIZED"), Str("FORBIDDEN"), Str("TOO_MANY_REQUESTS"),
                Str("BAD_REQUEST"), Str("NOT_FOUND"), Str("constructor")}

ErrorData == {Undef, Null} \cup {ObjOf([code |-> c]) : c \in NestedCodes}

TrpcBodies ==
    {Obj([error |-> e]) :
        e \in {Null, Str("oops")} \cup
              {ObjOf([message |-> m, code |-> Num(-32001), data |-> d]) :
                  m \in MessageValues, d \in ErrorData}}

Invalid == [t |-> "invalid"]      \* a body that is not JSON text

ErrorBodies ==
    FlatBodies \cup TrpcBodies \cup {Invalid, Null, Str("Bad Gateway"), Num(502), Arr(<<>>)}

ReportEntries ==
    {Obj([group |-> Str("web"), report |-> Str("# Report")]),
     Obj([group |-> Str("api"), report |-> Str("")]),
     Obj([group |-> Str("web")])}

SuccessBodies ==
    {Obj([result |-> Obj([data |-> Arr(q)])]) : q \in SeqsUpTo(ReportEntries, MaxResults)}
    \cup {Invalid, Obj(EmptyProps)}

Responses ==
    {[status |-> st, body |-> b] : st \in {x \in Statuses : isOk(x)}, b \in SuccessBodies}
    \cup {[status |-> st, body |-> b] : st \in {x \in Statuses : ~isOk(x)}, b \in ErrorBodies}

NoResponse == [status |-> 0, body |-> Undef]

-----------------------------------------------------------------------------
(* Report storage: stored values *)

Backends == {"local", "postgres", "mysql", "supabase"}
Relational == {"postgres", "mysql", "supabase"}

\* Math.random().toString(36).slice(2, 9): base-36 digits of a random number
Suffixes == {"k3f9x2a", "p0q7m4z"}

\* `report_${Date.wallClock()}_${suffix}`
localId(t, suffix) == "report_" \o ToString(t) \o "_" \o suffix

\* gen_random_uuid() / UUID(): the primary key of the n-th inserted row
uuid(n) == "uuid-" \o ToString(n)

\* a TIMESTAMPTZ / TIMESTAMP value as the driver returns it
Timestamp(t) == [t |-> "date", v |-> t]

ReportResults == {Arr(<<>>), Arr(<<Obj([group |-> Str("web"), report |-> Str("# Report")])>>)}

\* what the report form hands over: dates, a prompt and a grouping
ReportFields ==
    [fromDate |-> Str("2024-01-01"), toDate |-> Str("2024-01-31"),
     prompt |-> Str("Summarise"), groupBy |-> Str("TEAM")]

\* arguments of create(): as the hook passes them (status and results given),
\* and with neither status nor results
CreateInputs ==
    {Spread(ReportFields, [status |-> Str("pending"), results |-> Arr(<<>>)]),
     ReportFields}

DurationsMs == {1200}
ErrorTexts == {"boom"}

\* a || b
Or(a, b) == IF Truthy(a) THEN a ELSE b

\* LocalStorageAdapter.create, lines 59-76: the StoredReport that is pushed
localReport(id, data, t) ==
    [id |-> Str(id),
     fromDate |-> Prop(data, "fromDate"),
     toDate |-> Prop(data, "toDate"),
     promptTemplate |-> Prop(data, "promptTemplate"),
     prompt |-> Prop(data, "prompt"),
     customPrompt |-> Prop(data, "customPrompt"),
     groupBy |-> Prop(data, "groupBy"),
     subgroupBy |-> Prop(data, "subgroupBy"),
     orgId |-> Prop(data, "orgId"),
     parameters |-> Prop(data, "parameters"),
     results |-> Or(Prop(data, "results"), Arr(<<>>)),
     status |-> Or(Prop(data, "status"), Str("pending")),
     error |-> Prop(data, "error"),
     durationMs |-> Prop(data, "durationMs"),
     createdAt |-> Num(t)]

\* saveReports then getReports: the array goes through JSON
saveReports(reports) == [i \in 1..Len(reports) |-> JsonRoundTrip(reports[i])]

\* a query parameter: the drivers send undefined as NULL
sqlParam(v) == IF v = Undef THEN Null ELSE v

\* the row INSERT builds from create()'s values; id and created_at are the
\* column defaults
insertedRow(id, data, t) ==
    [id |-> Str(id),
     status |-> sqlParam(Prop(data, "status")),
     from_date |-> sqlParam(Prop(data, "fromDate")),
     to_date |-> sqlParam(Prop(data, "toDate")),
     prompt_template |-> sqlParam(Prop(data, "promptTemplate")),
     custom_prompt |-> sqlParam(Prop(data, "customPrompt")),
     group_by |-> sqlParam(Prop(data, "groupBy")),
     subgroup_by |-> sqlParam(Prop(data, "subgroupBy")),
     org_id |-> sqlParam(Prop(data, "orgId")),
     parameters |-> Or(Prop(data, "parameters"), Arr(<<>>)),
     results |-> IF Truthy(Prop(data, "results")) THEN Prop(data, "results") ELSE Null,
     error |-> sqlParam(Prop(data, "error")),
     duration_ms |-> sqlParam(Prop(data, "durationMs")),
     created_at |-> Timestamp(t)]

\* the table's NOT NULL and CHECK constraints
rowAccepted(row) ==
    /\ row.status \in {Str("pending"), Str("completed"), Str("failed")}
    /\ row.from_date # Null
    /\ row.to_date # Null

mapToStoredReport(row) ==
    [id |-> row.id,
     status |-> row.status,
     fromDate |-> row.from_date,
     toDate |-> row.to_date,
     promptTemplate |-> row.prompt_template,
     customPrompt |-> row.custom_prompt,
     groupBy |-> row.group_by,
     subgroupBy |-> row.subgroup_by,
     orgId |-> row.org_id,
     parameters |-> Or(row.parameters, Arr(<<>>)),
     results |-> row.results,
     error |-> row.error,
     durationMs |-> row.duration_ms,
     createdAt |-> row.created_at]

\* the stored form of a report seen as a StoredReport
asReport(b, stored) == IF b = "local" THEN stored ELSE mapToStoredReport(stored)

idsOf(reports) == {reports[i].id.v : i \in 1..Len(reports)}

\* reports.find(r => r.id === id): the index of the first match, 0 for none
findIndex(reports, id) ==
    IF \E i \in 1..Len(reports) : reports[i].id = Str(id)
    THEN CHOOSE i \in 1..Len(reports) :
            /\ reports[i].id = Str(id)
            /\ \A j \in 1..(i - 1) : reports[j].id # Str(id)
    ELSE 0

\* a mutation of the removal that cuts the array at the first match
withoutIdTruncating(reports, id) ==
    IF \E i \in 1..Len(reports) : reports[i].id = Str(id)
    THEN SubSeq(reports, 1, (CHOOSE i \in 1..Len(reports) :
                                /\ reports[i].id = Str(id)
                                /\ \A j \in 1..(i - 1) : reports[j].id # Str(id)) - 1)
    ELSE reports

\* reports.filter(r => r.id !== id) / DELETE ... WHERE id = $1
RECURSIVE withoutId(_, _)
withoutId(reports, id) ==
    IF reports = <<>> THEN <<>>
    ELSE IF Head(reports).id = Str(id) THEN withoutId(Tail(reports), id)
    ELSE <<Head(reports)>> \o withoutId(Tail(reports), id)

-----------------------------------------------------------------------------
(* Report storage: the adapters' methods *)

\* LocalStorageAdapter.updateSuccess, lines 88-94, for the report at index i
updateSuccessLocal(reports, i, results, durationMs) ==
    saveReports([reports EXCEPT ![i] =
        Spread(@, [results |-> results, status |-> Str("completed"),
                   durationMs |-> Num(durationMs)])])

\* LocalStorageAdapter.updateFailure, lines 103-109
updateFailureLocal(reports, i, error, durationMs) ==
    saveReports([reports EXCEPT ![i] =
        Spread(@, [status |-> Str("failed"), error |-> Str(error),
                   durationMs |-> Num(durationMs)])])

\* a mutation of the UPDATE that has lost its WHERE clause
updateSuccessRowsEverywhere(rows, id, results, durationMs) ==
    [i \in 1..Len(rows) |->
        [rows[i] EXCEPT !.status = Str("completed"), !.results = results,
                        !.duration_ms = Num(durationMs)]]

\* UPDATE ... SET status = 'completed', results = $2, duration_ms = $3 WHERE id = $4
updateSuccessRows(rows, id, results, durationMs) ==
    [i \in 1..Len(rows) |->
        IF rows[i].id = Str(id)
        THEN [rows[i] EXCEPT !.status = Str("completed"), !.results = results,
                             !.duration_ms = Num(durationMs)]
        ELSE rows[i]]

\* UPDATE ... SET status = 'failed', error = $2, duration_ms = $3 WHERE id = $4
updateFailureRows(rows, id, error, durationMs) ==
    [i \in 1..Len(rows) |->
        IF rows[i].id = Str(id)
        THEN [rows[i] EXCEPT !.status = Str("failed"), !.error = Str(error),
                             !.duration_ms = Num(durationMs)]
        ELSE rows[i]]

\* reports.sort((a, b) => b.createdAt - a.createdAt): Array.prototype.sort is
\* stable, reports of one millisecond keep their order in the array
RECURSIVE sortNewestFirst(_)
sortNewestFirst(reports) ==
    IF reports = <<>> THEN <<>>
    ELSE LET first == Head(reports)
             rest == sortNewestFirst(Tail(reports))
             newer == Cardinality({i \in 1..Len(rest) :
                                     rest[i].createdAt.v > first.createdAt.v})
         IN  SubSeq(rest, 1, newer) \o <<first>> \o SubSeq(rest, newer + 1, Len(rest))

\* ORDER BY created_at DESC: any order of the rows in which created_at never
\* increases; rows of one timestamp come in an order the database picks
orderByCreatedAtDesc(rows) ==
    LET n == Len(rows)
        orders == {p \in [1..n -> 1..n] : \A i, j \in 1..n : i # j => p[i] # p[j]}
    IN  {[i \in 1..n |-> rows[p[i]]] : p \in
            {q \in orders : \A i \in 1..(n - 1) :
                rows[q[i]].created_at.v >= rows[q[i + 1]].created_at.v}}

\* options?.key
optionOf(options, key) == IF options = Undef THEN Undef ELSE Prop(options.f, key)

Min(a, b) == IF a < b THEN a ELSE b

\* Array.prototype.slice(start, end) for 0 <= start
slice(s, start, end) == SubSeq(s, start + 1, Min(end, Len(s)))

ListResponse(reports, total) == [reports |-> reports, total |-> total]

\* LocalStorageAdapter.list, lines 121-131
listLocal(reports, options) ==
    LET sorted == sortNewestFirst(reports)
        total == Len(sorted)
    IN  IF Truthy(options)
        THEN LET start == Coalesce(optionOf(options, "offset"), Num(0)).v
                 end == start + Coalesce(optionOf(options, "limit"), Num(Len(reports))).v
             IN  ListResponse(slice(sorted, start, end), total)
        ELSE ListResponse(sorted, total)

DEFAULT_LIMIT == 10

\* WHERE status = $1, when options.status is truthy
whereStatus(rows, options) ==
    IF Truthy(optionOf(options, "status"))
    THEN SelectSeq(rows, LAMBDA r : r.status = optionOf(options, "status"))
    ELSE rows

mapRows(rows) == [i \in 1..Len(rows) |-> mapToStoredReport(rows[i])]

\* PostgresStorageAdapter.list / MySQLStorageAdapter.list, for one order the
\* database returns the rows in: LIMIT and OFFSET, then the count query
listSql(ordered, options) ==
    LET limit == Or(optionOf(options, "limit"), Num(DEFAULT_LIMIT)).v
        offset == Or(optionOf(options, "offset"), Num(0)).v
    IN  ListResponse(mapRows(slice(ordered, offset, offset + limit)), Len(ordered))

\* SupabaseStorageAdapter.list: limit() and range() are called only for
\* truthy options, range(from, to) replaces the window limit() set
listSupabase(ordered, options) ==
    LET limit == optionOf(options, "limit")
        offset == optionOf(options, "offset")
        window ==
            IF Truthy(offset)
            THEN slice(ordered, offset.v, offset.v + Or(limit, Num(DEFAULT_LIMIT)).v)
            ELSE IF Truthy(limit) THEN slice(ordered, 0, limit.v)
            ELSE ordered
    IN  ListResponse(mapRows(window), Len(ordered))

\* every response list(options) can give on backend b over the stored reports
listResponses(b, stored, options) ==
    IF b = "local" THEN {listLocal(stored, options)}
    ELSE IF b = "supabase"
    THEN {listSupabase(o, options) : o \in orderByCreatedAtDesc(whereStatus(stored, options))}
    ELSE {listSql(o, options) : o \in orderByCreatedAtDesc(whereStatus(stored, options))}

-----------------------------------------------------------------------------
(* Report storage: operations on one adapter *)

MaxCreates == 2     \* calls of create() in one behaviour
MaxNow == 2         \* the last millisecond the wall clock reaches
MaxLimit == 2       \* the largest options.limit
MaxOffset == 1      \* the largest options.offset

\* the storage operation that ran last: its arguments, and what it threw or
\* returned
NoOp ==
    [op |-> "none", id |-> "", data |-> EmptyProps, results |-> Undef,
     durationMs |-> Undef, error |-> Undef, options |-> Undef,
     threw |-> FALSE, message |-> "", retId |-> "", found |-> Undef,
     response |-> ListResponse(<<>>, 0)]

OpThrew(op, message) == [op EXCEPT !.threw = TRUE, !.message = message]

\* an id no create() has returned
ABSENT_ID == "report_0_0000000"

\* ids a caller can hold: those stored, the one of the last call, and one
\* that was never given out
KnownIds == idsOf(store) \cup {ABSENT_ID} \cup (IF lastOp.id = "" THEN {} ELSE {lastOp.id})

\* options of the ReportStorageAdapter interface: limit and offset, each given or not
Paginations ==
    {Undef}
    \cup {ObjOf([limit |-> l, offset |-> o]) :
            l \in {Undef} \cup {Num(n) : n \in 0..MaxLimit},
            o \in {Undef} \cup {Num(n) : n \in 0..MaxOffset}}

\* the relational adapters also take a status to filter on
ListOptions(b) ==
    IF b = "local" THEN Paginations
    ELSE Paginations \cup {Obj([status |-> Str("completed")])}

\* an invocation of generateReport that has not run a statement yet
IdleCall ==
    [pc |-> "idle", reportId |-> Null, startTime |-> 0, clientOutcome |-> NoOutcome,
     results |-> Undef, durationMs |-> Undef, errorMsg |-> Undef, trace |-> <<>>,
     onSuccess |-> <<>>, onError |-> <<>>, promise |-> [state |-> "none"]]

\* useCodeRabbit before generateReport was ever invoked
HookUnused ==
    /\ hookOptions = [storage |-> FALSE, useServerAction |-> FALSE]
    /\ isGenerating = FALSE
    /\ hookError = Null
    /\ calls = <<>>

\* MySQLStorageAdapter.create before it was ever called
NoCreates == <<>>

StorageUnused ==
    /\ backend = "local"
    /\ store = <<>>
    /\ wallClock = 0
    /\ created = 0
    /\ lastOp = NoOp

\* Date.now() / NOW() as create() reads it: the millisecond of the previous
\* reading or a later one
ClockReadings == {t \in {wallClock, wallClock + 1} : t <= MaxNow}

\* LocalStorageAdapter.create
CreateLocal ==
    /\ backend = "local"
    /\ created < MaxCreates
    /\ \E data \in CreateInputs, suffix \in Suffixes, t \in ClockReadings :
         LET id == localId(t, suffix)
         IN  /\ store' = saveReports(Append(store, localReport(id, data, t)))
             /\ wallClock' = t
             /\ lastOp' = [NoOp EXCEPT !.op = "create", !.data = data, !.retId = id]
    /\ created' = created + 1
    /\ UNCHANGED <<backend, clientVars, hookVars, creating>>

\* create of the Postgres, MySQL and Supabase adapters: the INSERT, and for
\* MySQL the SELECT that reads back the id of the newest row
CreateRow ==
    /\ backend \in Relational
    /\ created < MaxCreates
    /\ \E data \in CreateInputs, t \in ClockReadings :
         LET row == insertedRow(uuid(created + 1), data, t)
             call == [NoOp EXCEPT !.op = "create", !.data = data]
         IN  IF rowAccepted(row)
             THEN /\ store' = Append(store, row)
                  /\ created' = created + 1
                  /\ wallClock' = t
                  /\ \E newest \in orderByCreatedAtDesc(store') :
                       lastOp' = [call EXCEPT !.retId =
                                     IF backend = "mysql" THEN newest[1].id.v
                                     ELSE row.id.v]
             ELSE /\ lastOp' = OpThrew(call, "Failed to create report: null value in column \"status\" violates not-null constraint")
                  /\ UNCHANGED <<store, created, wallClock>>
    /\ UNCHANGED <<backend, clientVars, hookVars, creating>>

UpdateSuccess ==
    /\ \E id \in KnownIds, results \in ReportResults, durationMs \in DurationsMs :
         LET call == [NoOp EXCEPT !.op = "updateSuccess", !.id = id,
                                  !.results = results, !.durationMs = Num(durationMs)]
             i == findIndex(store, id)
         IN  IF backend = "local"
             THEN IF i = 0
                  THEN /\ lastOp' = OpThrew(call, "Report not found: " \o id)
                       /\ UNCHANGED store
                  ELSE /\ store' = updateSuccessLocal(store, i, results, durationMs)
                       /\ lastOp' = call
             ELSE /\ store' = updateSuccessRows(store, id, results, durationMs)
                  /\ lastOp' = call
    /\ UNCHANGED <<backend, wallClock, created, clientVars, hookVars, creating>>

UpdateFailure ==
    /\ \E id \in KnownIds, error \in ErrorTexts, durationMs \in DurationsMs :
         LET call == [NoOp EXCEPT !.op = "updateFailure", !.id = id,
                                  !.error = Str(error), !.durationMs = Num(durationMs)]
             i == findIndex(store, id)
         IN  IF backend = "local"
             THEN IF i = 0
                  THEN /\ lastOp' = OpThrew(call, "Report not found: " \o id)
                       /\ UNCHANGED store
                  ELSE /\ store' = updateFailureLocal(store, i, error, durationMs)
                       /\ lastOp' = call
             ELSE /\ store' = updateFailureRows(store, id, error, durationMs)
                  /\ lastOp' = call
    /\ UNCHANGED <<backend, wallClock, created, clientVars, hookVars, creating>>

\* get(id): the first report with the id, null when there is none
Get ==
    /\ \E id \in KnownIds :
         LET i == findIndex(store, id)
         IN  lastOp' = [NoOp EXCEPT !.op = "get", !.id = id,
                           !.found = IF i = 0 THEN Null
                                     ELSE Obj(asReport(backend, store[i]))]
    /\ UNCHANGED <<backend, store, wallClock, created, clientVars, hookVars, creating>>

List ==
    /\ \E options \in ListOptions(backend) :
         \E r \in listResponses(backend, store, options) :
            lastOp' = [NoOp EXCEPT !.op = "list", !.options = options, !.response = r]
    /\ UNCHANGED <<backend, store, wallClock, created, clientVars, hookVars, creating>>

Delete ==
    /\ \E id \in KnownIds :
         /\ store' = withoutId(store, id)
         /\ lastOp' = [NoOp EXCEPT !.op = "delete", !.id = id]
    /\ UNCHANGED <<backend, wallClock, created, clientVars, hookVars, creating>>

StorageInit ==
    /\ build = "source"
    /\ config = EmptyProps
    /\ host = NoHost
    /\ apiKey = resolveApiKey(config, host)
    /\ baseUrl = resolveBaseUrl(config)
    /\ timeout = resolveTimeout(config)
    /\ pc = "idle"
    /\ request = EmptyProps
    /\ controller = "none"
    /\ timerPending = FALSE
    /\ clock = 0
    /\ transport = "idle"
    /\ fetchLog = <<>>
    /\ response = NoResponse
    /\ outcome = NoOutcome
    /\ backend \in Backends
    /\ store = <<>>
    /\ wallClock = 1
    /\ created = 0
    /\ lastOp = NoOp
    /\ HookUnused
    /\ creating = NoCreates

StorageNext ==
    \/ CreateLocal
    \/ CreateRow
    \/ UpdateSuccess
    \/ UpdateFailure
    \/ Get
    \/ Delete

StorageSpec == StorageInit /\ [][StorageNext]_vars

ListingNext ==
    \/ StorageNext
    \/ List

ListingSpec == StorageInit /\ [][ListingNext]_vars

-----------------------------------------------------------------------------
(* Time *)

\* a mutation that lets the timer run one millisecond early
timerDueEarly(now, ms) == now >= ms - 1

\* setTimeout(cb, ms) runs cb no earlier than ms after it was armed
timerDue(now, ms) == now >= ms

\* the instants at which the clock is sampled for a timer due at ms
Instants(ms) == {i \in {ms - 1, ms} \cup {ms + d : d \in 1..MaxLate} : i >= 0}

-----------------------------------------------------------------------------
(* The client *)

Init ==
    /\ build \in Builds
    /\ \E cs \in ClientSetups :
         /\ config = cs[1]
         /\ host = cs[2]
    /\ apiKey = resolveApiKey(config, host)
    /\ baseUrl = resolveBaseUrl(config)
    /\ timeout = resolveTimeout(config)
    /\ pc = "idle"
    /\ request = EmptyProps
    /\ controller = "none"
    /\ timerPending = FALSE
    /\ clock = 0
    /\ transport = "idle"
    /\ fetchLog = <<>>
    /\ response = NoResponse
    /\ outcome = NoOutcome
    /\ StorageUnused
    /\ HookUnused
    /\ creating = NoCreates

\* lines 113-117: the call is refused before any other work
GenerateReportUnconfigured ==
    /\ pc = "idle"
    /\ ~isConfigured(apiKey)
    /\ \E req \in Requests : request' = req
    /\ pc' = "done"
    /\ outcome' = Thrown("config", "Error", CONFIG_ERROR)
    /\ UNCHANGED <<storageVars, hookVars, creating>>
    /\ UNCHANGED <<clientFields, controller, timerPending, clock, transport,
                   fetchLog, response>>

\* lines 119-147: controller, timer, payload and the call to fetch, up to the
\* first await; the transport either will settle or never does
GenerateReportFetch ==
    /\ pc = "idle"
    /\ isConfigured(apiKey)
    /\ \E req \in Requests :
         /\ request' = req
         /\ fetchLog' = Append(fetchLog, fetchCall(build, baseUrl.v, apiKey.v, req))
    /\ controller' = "live"
    /\ timerPending' = TRUE
    /\ clock' = 0
    /\ transport' \in {"pending", "hung"}
    /\ pc' = "fetch"
    /\ UNCHANGED <<storageVars, hookVars, creating>>
    /\ UNCHANGED <<clientFields, response, outcome>>

\* wall-clock time passes while the call awaits fetch
Tick ==
    /\ pc = "fetch"
    /\ \E now \in Instants(timeout.v) :
         /\ now > clock
         /\ clock' = now
    /\ UNCHANGED <<storageVars, hookVars, creating>>
    /\ UNCHANGED <<clientFields, pc, request, controller, timerPending, transport,
                   fetchLog, response, outcome>>

\* line 120: the timer callback, controller.abort()
TimerFires ==
    /\ timerPending
    /\ timerDue(clock, timeout.v)
    /\ timerPending' = FALSE
    /\ controller' = "aborted"
    /\ UNCHANGED <<storageVars, hookVars, creating>>
    /\ UNCHANGED <<clientFields, pc, request, clock, transport, fetchLog,
                   response, outcome>>

\* lines 199-207: fetch rejects with AbortError, the catch turns it into the
\* timeout error
FetchAborted ==
    /\ pc = "fetch"
    /\ controller = "aborted"
    /\ timerPending' = FALSE
    /\ outcome' = Thrown("timeout", "Error", timeoutMessage(timeout.v))
    /\ pc' = "done"
    /\ UNCHANGED <<storageVars, hookVars, creating>>
    /\ UNCHANGED <<clientFields, request, controller, clock, transport, fetchLog,
                   response>>

\* a mutation of the rejection path that calls fetch again
FetchRejectsRetry ==
    /\ pc = "fetch"
    /\ controller = "live"
    /\ transport = "pending"
    /\ Len(fetchLog) < 3
    /\ fetchLog' = Append(fetchLog, fetchLog[1])
    /\ UNCHANGED <<storageVars, hookVars, creating>>
    /\ UNCHANGED <<clientFields, pc, request, controller, timerPending, clock,
                   transport, response, outcome>>

\* lines 199-209: fetch rejects for a reason of its own (network failure);
\* the catch clears the pending timer and rethrows
FetchRejects ==
    /\ pc = "fetch"
    /\ controller = "live"
    /\ transport = "pending"
    /\ transport' = "failed"
    /\ timerPending' = FALSE
    /\ clock' = 0
    /\ outcome' = NetworkTypeError
    /\ pc' = "done"
    /\ UNCHANGED <<storageVars, hookVars, creating>>
    /\ UNCHANGED <<clientFields, request, controller, fetchLog, response>>

\* lines 136-149: fetch resolves with a Response; clearTimeout discards the
\* pending timer
FetchResolves ==
    /\ pc = "fetch"
    /\ controller = "live"
    /\ transport = "pending"
    /\ \E r \in Responses : response' = r
    /\ transport' = "answered"
    /\ timerPending' = FALSE
    /\ clock' = 0
    /\ pc' = "json"
    /\ UNCHANGED <<storageVars, hookVars, creating>>
    /\ UNCHANGED <<clientFields, request, controller, fetchLog, outcome>>

\* lines 151-198 and 199-210: the body is read and the call settles
ReadBody ==
    /\ pc = "json"
    /\ outcome' = settle(build, response.status, response.body)
    /\ pc' = "done"
    /\ UNCHANGED <<storageVars, hookVars, creating>>
    /\ UNCHANGED <<clientFields, request, controller, timerPending, clock,
                   transport, fetchLog, response>>

Next ==
    \/ GenerateReportUnconfigured
    \/ GenerateReportFetch
    \/ Tick
    \/ TimerFires
    \/ FetchAborted
    \/ FetchRejects
    \/ FetchResolves
    \/ ReadBody

Spec == Init /\ [][Next]_vars

\* the event loop runs due timers and settled promises, and time advances
LiveSpec ==
    /\ Init
    /\ [][Next]_vars
    /\ WF_vars(Tick)
    /\ WF_vars(TimerFires)
    /\ WF_vars(FetchAborted)
    /\ WF_vars(ReadBody)

-----------------------------------------------------------------------------
(* The orchestration hook: useCodeRabbit().generateReport *)

ACTION_CONFIG_ERROR == "CODERABBIT_API_KEY not configured. Set the environment variable in your .env.local file."

\* the request the report form submits
HookRequest == Spread(RequiredFields, [prompt |-> Str("Summarise"), groupBy |-> Str("TEAM")])

\* the argument of storage.create
createData(req) ==
    [fromDate |-> Prop(req, "from"),
     toDate |-> Prop(req, "to"),
     promptTemplate |-> Prop(req, "promptTemplate"),
     prompt |-> Prop(req, "prompt"),
     groupBy |-> Prop(req, "groupBy"),
     subgroupBy |-> Prop(req, "subgroupBy"),
     orgId |-> Prop(req, "orgId"),
     parameters |-> Prop(req, "parameters"),
     status |-> Str("pending"),
     results |-> Arr(<<>>)]

\* how client.generateReport can settle: result.data, the configuration
\* error, an API error, and a rejection of fetch rethrown as it came (its
\* message is the runtime's, the empty string included)
HookClientOutcomes ==
    {Returned(r) : r \in ReportResults}
    \cup {Thrown("config", "Error", CONFIG_ERROR), ApiError("boom"),
          Thrown("rethrown", "Error", "")}

\* generateReportAction: { data } or { error }, never a throw
generateReportAction(oc) ==
    IF oc.site = "config" THEN [error |-> Str(ACTION_CONFIG_ERROR)]
    ELSE IF oc.kind = "returned" THEN [data |-> oc.value]
    ELSE [error |-> Str(oc.message)]

STORAGE_DOWN == "connection refused"
CALLBACK_ERROR == "callback failed"

\* one invocation with the two pieces of hook state it writes
HookState(i) == [call |-> calls[i], isGenerating |-> isGenerating, hookError |-> hookError]

Logged(h, ev) == [h EXCEPT !.call.trace = Append(@, ev)]

\* finally { setIsGenerating(false) }, the promise fulfilled
Resolve(h, v) ==
    [h EXCEPT !.isGenerating = FALSE, !.call.pc = "settled",
              !.call.promise = [state |-> "fulfilled", value |-> v]]

\* finally { setIsGenerating(false) }, the exception leaving the function
Reject(h, message) ==
    [h EXCEPT !.isGenerating = FALSE, !.call.pc = "settled",
              !.call.promise = [state |-> "rejected", value |-> Str(message)]]

\* options?.onError?.(errorMsg); return null
OnError(h) ==
    LET invoked == [Logged(h, "onError") EXCEPT !.call.onError = Append(@, h.call.errorMsg)]
    IN  {Resolve(invoked, Null), Reject(invoked, CALLBACK_ERROR)}

\* a mutation that reports the failure without recording it
CatchUnrecorded(h, message, t) ==
    OnError([h EXCEPT !.call.durationMs = Num(t - h.call.startTime),
                      !.call.errorMsg = Str(message),
                      !.hookError = Str(message)])

\* the catch block up to its await
Catch(h, message, t) ==
    LET caught == [h EXCEPT !.call.durationMs = Num(t - h.call.startTime),
                            !.call.errorMsg = Str(message),
                            !.hookError = Str(message)]
    IN  IF hookOptions.storage /\ Truthy(h.call.reportId)
        THEN {[Logged(caught, "updateFailure") EXCEPT !.call.pc = "updateFailure"]}
        ELSE OnError(caught)

\* options?.onSuccess?.(reportId); return reportId
OnSuccess(h, t) ==
    LET invoked == [Logged(h, "onSuccess") EXCEPT !.call.onSuccess = Append(@, h.call.reportId)]
    IN  {Resolve(invoked, h.call.reportId)} \cup Catch(invoked, CALLBACK_ERROR, t)

\* a mutation that invokes the success callback before the record is updated
SucceedCallbackFirst(h, results, t) ==
    LET timed == [h EXCEPT !.call.results = results,
                           !.call.durationMs = Num(t - h.call.startTime)]
    IN  IF hookOptions.storage /\ Truthy(h.call.reportId)
        THEN {[Logged(Logged(timed, "onSuccess"), "updateSuccess")
                  EXCEPT !.call.pc = "updateSuccess",
                         !.call.onSuccess = Append(@, h.call.reportId)]}
        ELSE OnSuccess(timed, t)

\* the try block from the client's results to its next await
Succeed(h, results, t) ==
    LET timed == [h EXCEPT !.call.results = results,
                           !.call.durationMs = Num(t - h.call.startTime)]
    IN  IF hookOptions.storage /\ Truthy(h.call.reportId)
        THEN {[Logged(timed, "updateSuccess") EXCEPT !.call.pc = "updateSuccess"]}
        ELSE OnSuccess(timed, t)

\* the try block from the settled client call on
AfterClient(h, oc, t) ==
    IF hookOptions.useServerAction
    THEN LET resp == generateReportAction(oc)
         IN  IF Truthy(Prop(resp, "error"))
             THEN Catch(Logged(h, "client returned"), resp.error.v, t)
             ELSE Succeed(Logged(h, "client returned"), Prop(resp, "data"), t)
    ELSE IF oc.kind = "returned"
         THEN Succeed(Logged(h, "client returned"), oc.value, t)
         ELSE Catch(Logged(h, "client threw"), oc.message, t)

Becomes(i, h) ==
    /\ calls' = [calls EXCEPT ![i] = h.call]
    /\ isGenerating' = h.isGenerating
    /\ hookError' = h.hookError

\* generateReport is invoked: the function body up to its first await
Generate(i) ==
    /\ i = Len(calls) + 1
    /\ LET entered == [IdleCall EXCEPT !.startTime = wallClock,
                                       !.promise = [state |-> "pending"]]
       IN  calls' = Append(calls,
                       IF hookOptions.storage
                       THEN [entered EXCEPT !.pc = "create", !.trace = <<"create">>]
                       ELSE [entered EXCEPT !.pc = "client", !.trace = <<"client">>])
    /\ isGenerating' = TRUE
    /\ hookError' = Null
    /\ UNCHANGED <<hookOptions, storageVars, clientVars, creating>>

\* the form's button, disabled while isGenerating
Submit(i) ==
    /\ ~isGenerating
    /\ Generate(i)

\* storage.create settles
CreateSettles(i) ==
    /\ i \in DOMAIN calls
    /\ calls[i].pc = "create"
    /\ \/ LET row == insertedRow(uuid(created + 1), createData(HookRequest), wallClock)
              made == [Logged(HookState(i), "created") EXCEPT !.call.reportId = row.id]
          IN  /\ rowAccepted(row)
              /\ store' = Append(store, row)
              /\ created' = created + 1
              /\ Becomes(i, [Logged(made, "client") EXCEPT !.call.pc = "client"])
       \/ /\ \E h \in Catch(Logged(HookState(i), "create threw"),
                            "Failed to create report: " \o STORAGE_DOWN, wallClock) :
               Becomes(i, h)
          /\ UNCHANGED <<store, created>>
    /\ UNCHANGED <<hookOptions, backend, wallClock, lastOp, clientVars, creating>>

\* the client call (or the server action) settles; the network call is
\* what takes time
ClientSettles(i) ==
    /\ i \in DOMAIN calls
    /\ calls[i].pc = "client"
    /\ \E t \in ClockReadings, oc \in HookClientOutcomes :
         /\ wallClock' = t
         /\ \E h \in AfterClient([HookState(i) EXCEPT !.call.clientOutcome = oc], oc, t) :
              Becomes(i, h)
    /\ UNCHANGED <<hookOptions, backend, store, created, lastOp, clientVars, creating>>

\* storage.updateSuccess settles
UpdateSuccessSettles(i) ==
    /\ i \in DOMAIN calls
    /\ calls[i].pc = "updateSuccess"
    /\ \/ /\ store' = updateSuccessRows(store, calls[i].reportId.v,
                                        sqlParam(calls[i].results), calls[i].durationMs.v)
          /\ \E h \in OnSuccess(Logged(HookState(i), "updatedSuccess"), wallClock) :
               Becomes(i, h)
       \/ /\ \E h \in Catch(Logged(HookState(i), "updateSuccess threw"),
                            "Failed to update report: " \o STORAGE_DOWN, wallClock) :
               Becomes(i, h)
          /\ UNCHANGED store
    /\ UNCHANGED <<hookOptions, backend, wallClock, created, lastOp, clientVars, creating>>

\* storage.updateFailure settles
UpdateFailureSettles(i) ==
    /\ i \in DOMAIN calls
    /\ calls[i].pc = "updateFailure"
    /\ \/ /\ store' = updateFailureRows(store, calls[i].reportId.v,
                                        calls[i].errorMsg.v, calls[i].durationMs.v)
          /\ \E h \in OnError(Logged(HookState(i), "updatedFailure")) : Becomes(i, h)
       \/ /\ Becomes(i, Reject(Logged(HookState(i), "updateFailure threw"),
                               "Failed to update report: " \o STORAGE_DOWN))
          /\ UNCHANGED store
    /\ UNCHANGED <<hookOptions, backend, wallClock, created, lastOp, clientVars, creating>>

ClientUnused ==
    /\ build = "source"
    /\ config = EmptyProps
    /\ host = NoHost
    /\ apiKey = resolveApiKey(config, host)
    /\ baseUrl = resolveBaseUrl(config)
    /\ timeout = resolveTimeout(config)
    /\ pc = "idle"
    /\ request = EmptyProps
    /\ controller = "none"
    /\ timerPending = FALSE
    /\ clock = 0
    /\ transport = "idle"
    /\ fetchLog = <<>>
    /\ response = NoResponse
    /\ outcome = NoOutcome

\* the hook rendered with callbacks, with or without a Postgres storage
\* adapter, calling the client directly or through the server action
HookInit ==
    /\ ClientUnused
    /\ backend = "postgres"
    /\ store = <<>>
    /\ wallClock = 1
    /\ created = 0
    /\ lastOp = NoOp
    /\ hookOptions \in [storage : BOOLEAN, useServerAction : BOOLEAN]
    /\ isGenerating = FALSE
    /\ hookError = Null
    /\ calls = <<>>
    /\ creating = NoCreates

Settles(i) ==
    \/ CreateSettles(i)
    \/ ClientSettles(i)
    \/ UpdateSuccessSettles(i)
    \/ UpdateFailureSettles(i)

\* one invocation at a time: the caller waits for isGenerating to clear
HookNext ==
    \E i \in 1..MaxCalls :
        \/ Submit(i)
        \/ Settles(i)

HookSpec == HookInit /\ [][HookNext]_vars

\* the caller invokes generateReport whenever it likes
OverlapNext ==
    \E i \in 1..MaxCalls :
        \/ Generate(i)
        \/ Settles(i)

OverlapSpec == HookInit /\ [][OverlapNext]_vars

-----------------------------------------------------------------------------
(* MySQLStorageAdapter.create, statement by statement *)

\* pool.execute(INSERT ... VALUES (UUID(), ...)) settles
MySqlInsert(c) ==
    /\ c = Len(creating) + 1
    /\ \E data \in CreateInputs, t \in ClockReadings :
         LET row == insertedRow(uuid(created + 1), data, t)
         IN  IF rowAccepted(row)
             THEN /\ store' = Append(store, row)
                  /\ created' = created + 1
                  /\ wallClock' = t
                  /\ creating' = Append(creating, [pc |-> "inserted", inserted |-> row.id,
                                                   retId |-> Null])
             ELSE /\ creating' = Append(creating, [pc |-> "threw", inserted |-> Null,
                                                   retId |-> Null])
                  /\ UNCHANGED <<store, created, wallClock>>
    /\ UNCHANGED <<backend, lastOp, clientVars, hookVars>>

\* pool.execute(SELECT id ... ORDER BY created_at DESC LIMIT 1) settles and
\* create returns idRows[0].id
MySqlSelectId(c) ==
    /\ c \in DOMAIN creating
    /\ creating[c].pc = "inserted"
    /\ \E newest \in orderByCreatedAtDesc(store) :
         creating' = [creating EXCEPT ![c] = [@ EXCEPT !.pc = "returned",
                                                         !.retId = newest[1].id]]
    /\ UNCHANGED <<storageVars, clientVars, hookVars>>

MySqlInit ==
    /\ ClientUnused
    /\ backend = "mysql"
    /\ store = <<>>
    /\ wallClock = 1
    /\ created = 0
    /\ lastOp = NoOp
    /\ HookUnused
    /\ creating = NoCreates

MySqlNext ==
    \E c \in 1..MaxCreators :
        \/ MySqlInsert(c)
        \/ MySqlSelectId(c)

MySqlSpec == MySqlInit /\ [][MySqlNext]_vars

-----------------------------------------------------------------------------
(* Shorthands for the properties *)

Done == pc = "done"
Payload == fetchLog[1].body

Configured == apiKey.t = "string" /\ apiKey.v # ""
Started == pc # "idle"
Sent == fetchLog # <<>>
BadStatus == response.status # 0 /\ ~isOk(response.status)
HungFetch == pc = "fetch" /\ transport = "hung"
TimedOut == Done /\ outcome.kind = "thrown" /\ outcome.site = "timeout"

\* the body is an object with the key k holding an object
HasObject(v, k) == v.t = "object" /\ k \in DOMAIN v.f /\ v.f[k].t = "object"

\* the body is { error: { ..., data: { code: c } } }
NestedCodeIs(body, c) ==
    /\ HasObject(body, "error")
    /\ HasObject(body.f["error"], "data")
    /\ "code" \in DOMAIN body.f["error"].f["data"].f
    /\ body.f["error"].f["data"].f["code"] = Str(c)

NestedCodeKnown(body) == \E c \in DOMAIN ERROR_MESSAGES : NestedCodeIs(body, c)

\* the text of a string-valued key, "" when the key is missing
TextOf(v, k) == IF k \in DOMAIN v.f /\ v.f[k].t = "string" THEN v.f[k].v ELSE ""

FlatBody(body) == body.t = "object" /\ "error" \notin DOMAIN body.f

MappedStatuses == {400, 401, 403, 429}

FriendlyForStatus(status) ==
    CASE status = 400 -> ERROR_MESSAGES["BAD_REQUEST"]
      [] status = 401 -> ERROR_MESSAGES["UNAUTHORIZED"]
      [] status = 403 -> ERROR_MESSAGES["FORBIDDEN"]
      [] status = 429 -> ERROR_MESSAGES["TOO_MANY_REQUESTS"]

\* the messages of issues[], separated by ", "
RECURSIVE CommaJoined(_)
CommaJoined(q) ==
    IF Len(q) = 0 THEN ""
    ELSE IF Len(q) = 1 THEN TextOf(q[1], "message")
    ELSE CommaJoined(SubSeq(q, 1, Len(q) - 1)) \o ", " \o TextOf(q[Len(q)], "message")

GenericText(status) ==
    CASE status = 500 -> "API request failed with status 500"
      [] status = 400 -> "API request failed with status 400"
      [] status = 401 -> "API request failed with status 401"
      [] status = 403 -> "API request failed with status 403"
      [] status = 429 -> "API request failed with status 429"

-----------------------------------------------------------------------------
(* C1: a call on a client whose apiKey is null or "" fails with the
   configuration error; fetch is never called and no timer or abort
   controller exists afterwards. *)
C1_UnconfiguredFailsBeforeFetch ==
    (Started /\ (apiKey = Null \/ apiKey = Str(""))) =>
        /\ Done
        /\ outcome = Thrown("config", "Error", CONFIG_ERROR)
        /\ Len(fetchLog) = 0
        /\ ~timerPending
        /\ controller = "none"

C1_Witness ==
    /\ Done
    /\ apiKey = Str("")
    /\ host # NoHost
    /\ outcome.site = "config"
    /\ fetchLog = <<>>

(* C2: once a configured client has started a call, fetch has been called
   exactly once, as a POST to {baseUrl}/v1/report.generate, and that stays so
   whatever the outcome. *)
C2_ExactlyOneFetch ==
    (Started /\ Configured) =>
        /\ Len(fetchLog) = 1
        /\ fetchLog[1].method = "POST"
        /\ fetchLog[1].url = baseUrl.v \o "/v1/report.generate"
        /\ fetchLog[1].apiKeyHeader = apiKey.v

C2_Witness ==
    /\ Done
    /\ transport = "failed"
    /\ outcome = NetworkTypeError
    /\ Len(fetchLog) = 1

(* C3: a call whose transport never resolves eventually fails with the
   timeout error; whenever the timeout error is raised the configured timeout
   has elapsed, the request was aborted through the controller, and the
   message names the configured timeout in seconds. *)
C3_TimeoutOnHungTransport ==
    /\ [](TimedOut =>
            /\ clock >= timeout.v
            /\ controller = "aborted"
            /\ ~timerPending
            /\ outcome.name = "Error"
            /\ (timeout.v = 1500 =>
                  outcome.message = "CodeRabbit report generation timed out after 1.5s")
            /\ (timeout.v = 600000 =>
                  outcome.message = "CodeRabbit report generation timed out after 600s"))
    /\ (HungFetch ~> TimedOut)

C3_Witness ==
    /\ TimedOut
    /\ transport = "hung"
    /\ timeout.v = 1500
    /\ controller = "aborted"

(* C4: a non-2xx response whose body carries error.data.code from the
   friendly table surfaces the friendly message of that code, whatever the
   status and whatever error.message. *)
C4_FriendlyMessageForNestedCode ==
    \A c \in DOMAIN ERROR_MESSAGES :
        (build = "source" /\ Done /\ BadStatus /\ NestedCodeIs(response.body, c)) =>
            outcome = ApiError(ERROR_MESSAGES[c])

C4_Witness ==
    /\ build = "source"
    /\ Done
    /\ response.status = 403
    /\ NestedCodeIs(response.body, "UNAUTHORIZED")
    /\ TextOf(response.body.f["error"], "message") = "bad"
    /\ outcome.message = ERROR_MESSAGES["UNAUTHORIZED"]

(* C5: a non-2xx response whose body carries an error object with no nested
   code, or with a code outside the friendly table, surfaces error.message
   when it is non-empty and the generic status message otherwise. *)
C5_UnknownCodeSurfacesRawMessage ==
    (/\ build = "source"
     /\ Done
     /\ BadStatus
     /\ HasObject(response.body, "error")
     /\ ~NestedCodeKnown(response.body)) =>
        outcome = ApiError(IF TextOf(response.body.f["error"], "message") # ""
                           THEN TextOf(response.body.f["error"], "message")
                           ELSE GenericText(response.status))

(* C6 as stated: a flat body surfaces the friendly message at 400, 401, 403
   and 429, and at any other status the raw message, followed by ": " and the
   comma-joined issue messages when issues is present. *)
C6_FlatBodyAsStated ==
    (/\ build = "source"
     /\ Done
     /\ BadStatus
     /\ FlatBody(response.body)
     /\ "message" \in DOMAIN response.body.f) =>
        outcome = ApiError(
            IF response.status \in MappedStatuses
            THEN FriendlyForStatus(response.status)
            ELSE IF "issues" \in DOMAIN response.body.f
            THEN TextOf(response.body, "message") \o ": " \o
                 CommaJoined(response.body.f["issues"].v)
            ELSE TextOf(response.body, "message"))

(* C6 amended: a flat body surfaces the friendly message at 400, 401, 403 and
   429; at any other status it surfaces the raw message, or the generic
   status message when message is empty or missing, followed by ": " and the
   comma-joined issue messages when that joined text is not empty. *)
C6_FlatBody ==
    (build = "source" /\ Done /\ BadStatus /\ FlatBody(response.body)) =>
        LET base == IF TextOf(response.body, "message") # ""
                    THEN TextOf(response.body, "message")
                    ELSE GenericText(response.status)
            joined == IF "issues" \in DOMAIN response.body.f
                      THEN CommaJoined(response.body.f["issues"].v)
                      ELSE ""
        IN  outcome = ApiError(
                IF response.status \in MappedStatuses
                THEN FriendlyForStatus(response.status)
                ELSE IF joined # "" THEN base \o ": " \o joined
                ELSE base)

C6_Witness ==
    /\ build = "source"
    /\ Done
    /\ response.status = 500
    /\ FlatBody(response.body)
    /\ TextOf(response.body, "message") = "bad"
    /\ "issues" \in DOMAIN response.body.f
    /\ response.body.f["issues"].v = <<Issue("a"), Issue("b")>>
    /\ outcome.message = "bad: a, b"

(* C7: every non-2xx response makes the call fail with an error built by the
   classification rules, also when the body is not JSON or not an object. *)
C7_EveryBadStatusIsApiError ==
    (Done /\ BadStatus) => (outcome.kind = "thrown" /\ outcome.site = "api")

(* C8: a request with neither prompt nor promptTemplate yields a payload with
   neither key, and no payload key ever holds null. *)
C8_NoPromptKeysNoNull ==
    Sent =>
        /\ (~Has(request, "prompt") /\ ~Has(request, "promptTemplate")) =>
              (DOMAIN Payload \cap {"prompt", "promptTemplate"} = {})
        /\ \A k \in DOMAIN Payload : Payload[k] \notin {Null, Undef}

C8_Witness ==
    /\ Sent
    /\ build = "source"
    /\ "promptTemplate" \in DOMAIN request
    /\ ~Has(request, "promptTemplate")
    /\ ~Has(request, "prompt")
    /\ DOMAIN Payload = {"from", "to", "scheduleRange", "parameters"}

(* C9 as stated: the payload is the request merged over scheduleRange =
   "Dates": every field of the request is in the payload with its value, and
   no optional field missing from the request is in the payload. *)
C9_PayloadIsRequestOverDefault ==
    Sent =>
        /\ \A k \in DOMAIN request : Has(request, k) =>
              (k \in DOMAIN Payload /\ Payload[k] = request[k])
        /\ \A k \in OptionalKeys \ {"scheduleRange"} :
              ~Has(request, k) => k \notin DOMAIN Payload
        /\ Payload["scheduleRange"] = Str("Dates")

(* C9 amended: the payload always carries from, to, scheduleRange (the
   request's, else "Dates"); the published copy sends the request merged over
   that default; the source client sends parameters always (the request's,
   else the empty list), sends each of prompt, promptTemplate, groupBy,
   subgroupBy and orgId exactly when the request holds a non-empty value for
   it, with that value, and sends nothing else. *)
C9_Payload ==
    Sent =>
        /\ Payload["from"] = request["from"]
        /\ Payload["to"] = request["to"]
        /\ Payload["scheduleRange"] = Str("Dates")
        /\ build = "published" =>
              /\ \A k \in DOMAIN request : Has(request, k) =>
                    (k \in DOMAIN Payload /\ Payload[k] = request[k])
              /\ \A k \in OptionalKeys \ {"scheduleRange"} :
                    ~Has(request, k) => k \notin DOMAIN Payload
        /\ build = "source" =>
              /\ DOMAIN Payload \subseteq DOMAIN RequiredFields \cup OptionalKeys
              /\ Payload["parameters"] =
                    (IF Has(request, "parameters") THEN request["parameters"]
                     ELSE Arr(<<>>))
              /\ \A k \in {"prompt", "promptTemplate", "groupBy", "subgroupBy", "orgId"} :
                    /\ k \in DOMAIN Payload <=> (Has(request, k) /\ request[k] # Str(""))
                    /\ k \in DOMAIN Payload => Payload[k] = request[k]

C9_Witness ==
    /\ Sent
    /\ build = "source"
    /\ Has(request, "groupBy")
    /\ ~Has(request, "parameters")
    /\ Payload["groupBy"] = Str("TEAM")
    /\ Payload["parameters"] = Arr(<<>>)

(* C10: a 2xx response with body {result: {data: A}} makes the call return
   A itself: the same entries in the same order, malformed ones included. *)
C10_ReturnsDataVerbatim ==
    (/\ Done
     /\ isOk(response.status)
     /\ HasObject(response.body, "result")
     /\ "data" \in DOMAIN response.body.f["result"].f) =>
        outcome = Returned(response.body.f["result"].f["data"])

C10_Witness ==
    /\ Done
    /\ outcome.kind = "returned"
    /\ outcome.value.t = "array"
    /\ Len(outcome.value.v) = 2
    /\ outcome.value.v[1] = Obj([group |-> Str("web")])
    /\ outcome.value.v[2] = Obj([group |-> Str("api"), report |-> Str("")])

-----------------------------------------------------------------------------
(* Properties of the constructor *)

NonEmptyString(v) == v.t = "string" /\ v.v # ""

\* what one host mechanism holds under CODERABBIT_API_KEY, undefined when
\* the mechanism or the variable is missing
HeldBy(global) ==
    IF global # Undef /\ Truthy(Prop(global.f, "env"))
    THEN Prop(Prop(global.f, "env").f, "CODERABBIT_API_KEY")
    ELSE Undef

\* the places a key can come from, in the order of lookup
KeySources == <<Prop(config, "apiKey"), HeldBy(host.process), HeldBy(host.Deno)>>

FirstNonEmpty(sources) ==
    IF \E i \in 1..Len(sources) : NonEmptyString(sources[i])
    THEN sources[CHOOSE i \in 1..Len(sources) :
                    /\ NonEmptyString(sources[i])
                    /\ \A j \in 1..(i - 1) : ~NonEmptyString(sources[j])]
    ELSE Null

(* C11: the constructor resolves apiKey as the first non-empty string among
   the explicit config value, the process environment and the Deno
   environment, and as null when none holds one: an empty explicit key, or
   a first environment without the key, does not hide a later source.
   baseUrl and timeout default to https://api.coderabbit.ai/api and
   600000 ms. *)
C11_FirstNonEmptySourceWins ==
    /\ apiKey = FirstNonEmpty(KeySources)
    /\ Prop(config, "baseUrl") = Undef => baseUrl = Str("https://api.coderabbit.ai/api")
    /\ Prop(config, "timeout") = Undef => timeout = Num(600000)

(* C12: isConfigured() is true exactly when the resolved apiKey is a
   non-empty string, a call goes past the configuration check exactly then,
   and no step of the client changes apiKey. *)
C12_ConfiguredIsStable ==
    /\ [](isConfigured(apiKey) <=> NonEmptyString(apiKey))
    /\ []((Done /\ outcome.kind = "thrown" /\ outcome.site = "config")
            <=> (Started /\ ~NonEmptyString(apiKey)))
    /\ [][apiKey' = apiKey]_vars

C12_Witness ==
    /\ Done
    /\ apiKey = Str("sk-deno")
    /\ config = EmptyProps
    /\ isConfigured(apiKey)
    /\ Sent

-----------------------------------------------------------------------------
(* Properties of the storage adapters *)

\* the i-th stored report of a store, as the StoredReport get() returns
RecordAt(stored, i) == asReport(backend, stored[i])

StatusOf(r) == Prop(r, "status")
Pending(r) == StatusOf(r) = Str("pending")
Terminal(r) == StatusOf(r) \in {Str("completed"), Str("failed")}
Unset(v) == v.t \in {"undefined", "null"}
NonEmptyList(v) == v.t = "array" /\ Len(v.v) > 0
Outcome(r) == <<StatusOf(r), Prop(r, "results"), Prop(r, "error"), Prop(r, "durationMs")>>

RequestKeys == {"fromDate", "toDate", "promptTemplate", "prompt", "customPrompt",
                "groupBy", "subgroupBy", "orgId", "parameters"}

IsUpdate(op) == op.op \in {"updateSuccess", "updateFailure"}
Absent(id) == id \notin idsOf(store)

(* C13: an update moves a report's status only from pending to completed
   (updateSuccess) or from pending to failed (updateFailure); once a report
   is completed or failed, no updateSuccess or updateFailure changes its
   status, results, error or durationMs. *)
C13_TerminalStatusIsFinal ==
    [][IsUpdate(lastOp') =>
         \A i \in 1..Len(store) :
            LET before == RecordAt(store, i)
                after == RecordAt(store', i)
            IN  /\ Terminal(before) => Outcome(after) = Outcome(before)
                /\ StatusOf(after) # StatusOf(before) =>
                      /\ Pending(before)
                      /\ StatusOf(after) =
                            (IF lastOp'.op = "updateSuccess" THEN Str("completed")
                             ELSE Str("failed"))]_vars

(* C14: in every state of an adapter, every stored report has durationMs
   unset exactly when its status is pending, and a report that is not
   pending has exactly one of: a non-empty results list, an error. *)
C14_DurationAndOutcomeMatchStatus ==
    \A i \in 1..Len(store) :
        LET r == RecordAt(store, i)
        IN  /\ Unset(Prop(r, "durationMs")) <=> Pending(r)
            /\ ~Pending(r) =>
                  (NonEmptyList(Prop(r, "results")) <=> Unset(Prop(r, "error")))

(* C15: on the localStorage adapter, get(id) right after create(data)
   returned id yields a report that is pending (when data held no status)
   and has no durationMs; get(id) right after updateSuccess(id, R, d) yields
   status completed, results R and durationMs d; and updateSuccess leaves
   the id, createdAt and the request fields of the report as they were. *)
C15_CreateGetUpdateGet ==
    [][backend = "local" =>
         /\ (/\ lastOp.op = "create"
             /\ lastOp'.op = "get"
             /\ lastOp'.id = lastOp.retId) =>
               /\ lastOp'.found.t = "object"
               /\ Unset(Prop(lastOp.data, "status")) => Pending(lastOp'.found.f)
               /\ Unset(Prop(lastOp'.found.f, "durationMs"))
         /\ (/\ lastOp.op = "updateSuccess"
             /\ ~lastOp.threw
             /\ lastOp'.op = "get"
             /\ lastOp'.id = lastOp.id) =>
               /\ lastOp'.found.t = "object"
               /\ StatusOf(lastOp'.found.f) = Str("completed")
               /\ Prop(lastOp'.found.f, "results") = lastOp.results
               /\ Prop(lastOp'.found.f, "durationMs") = lastOp.durationMs
         /\ (lastOp'.op = "updateSuccess" /\ ~lastOp'.threw) =>
               \A i \in 1..Len(store) :
                  \A k \in RequestKeys \cup {"id", "createdAt"} :
                     Prop(RecordAt(store', i), k) = Prop(RecordAt(store, i), k)]_vars

(* C16: on the localStorage adapter, create returns an id no stored report
   has, leaves the stored reports as they were, and makes the set of stored
   ids grow by exactly one. *)
C16_CreateAddsOneFreshId ==
    [][(backend = "local" /\ lastOp'.op = "create" /\ created' = created + 1) =>
         /\ lastOp'.retId \notin idsOf(store)
         /\ SubSeq(store', 1, Len(store)) = store
         /\ Cardinality(idsOf(store')) = Cardinality(idsOf(store)) + 1]_vars

DistinctIds(stored) == Cardinality(idsOf(stored)) = Len(stored)

(* C15 without the collision of ids: as long as no two stored reports share
   an id, create-get and updateSuccess-get behave as C15 says. *)
C15_WithDistinctIds ==
    [][(backend = "local" /\ DistinctIds(store) /\ DistinctIds(store')) =>
         /\ (/\ lastOp.op = "create"
             /\ lastOp'.op = "get"
             /\ lastOp'.id = lastOp.retId) =>
               /\ lastOp'.found.t = "object"
               /\ Unset(Prop(lastOp.data, "status")) => Pending(lastOp'.found.f)
               /\ Unset(Prop(lastOp'.found.f, "durationMs"))
         /\ (/\ lastOp.op = "updateSuccess"
             /\ ~lastOp.threw
             /\ lastOp'.op = "get"
             /\ lastOp'.id = lastOp.id) =>
               /\ lastOp'.found.t = "object"
               /\ StatusOf(lastOp'.found.f) = Str("completed")
               /\ Prop(lastOp'.found.f, "results") = lastOp.results
               /\ Prop(lastOp'.found.f, "durationMs") = lastOp.durationMs
         /\ (lastOp'.op = "updateSuccess" /\ ~lastOp'.threw) =>
               \A i \in 1..Len(store) :
                  \A k \in RequestKeys \cup {"id", "createdAt"} :
                     Prop(RecordAt(store', i), k) = Prop(RecordAt(store, i), k)]_vars

\* the listing of the last list() call
Listed == lastOp.response.reports
ListedOption(key) == optionOf(lastOp.options, key)
HasNumber(v) == v.t = "number"

CreatedAt(r) == Prop(r, "createdAt").v
NewestFirst(reports) ==
    \A i, j \in 1..Len(reports) : i < j => CreatedAt(reports[i]) >= CreatedAt(reports[j])

\* the stored reports list() is asked for: all of them, or those of the
\* status the relational adapters filter on
Matching ==
    LET all == [i \in 1..Len(store) |-> RecordAt(store, i)]
    IN  IF Truthy(ListedOption("status"))
        THEN SelectSeq(all, LAMBDA r : StatusOf(r) = ListedOption("status"))
        ELSE all

Arrangements(s) ==
    {[i \in 1..Len(s) |-> s[p[i]]] :
        p \in {q \in [1..Len(s) -> 1..Len(s)] :
                 \A i, j \in 1..Len(s) : i # j => q[i] # q[j]}}

\* positions first..last (counted from 0) of a sequence
Positions(s, first, last) ==
    [i \in 1..(IF last + 1 > Len(s) THEN Len(s) - first ELSE last + 1 - first) |-> s[first + i]]

(* C17: list returns the reports newest first; with options {limit, offset}
   it returns exactly the reports at positions offset .. offset+limit-1 of
   that order, so {limit: 1, offset: 0} returns the single newest report;
   total is the number of all matching reports. *)
C17_NewestFirstWindow ==
    lastOp.op = "list" =>
        /\ NewestFirst(Listed)
        /\ lastOp.response.total = Len(Matching)
        /\ (HasNumber(ListedOption("limit")) /\ HasNumber(ListedOption("offset"))) =>
              \E order \in Arrangements(Matching) :
                 /\ NewestFirst(order)
                 /\ Listed = Positions(order, ListedOption("offset").v,
                                       ListedOption("offset").v + ListedOption("limit").v - 1)

(* C18: delete(id) leaves no report with that id and every other report as
   it was, and raises no error whether or not the id was stored; get(id)
   right after delete(id), and get of any id that is not stored, return
   null without an error; get never changes the store. *)
C18_DeleteThenGet ==
    [][/\ lastOp'.op = "delete" =>
             /\ ~lastOp'.threw
             /\ lastOp'.id \notin idsOf(store')
             /\ store' = SelectSeq(store, LAMBDA r : r.id.v # lastOp'.id)
       /\ lastOp'.op = "get" =>
             /\ store' = store
             /\ ~lastOp'.threw
             /\ Absent(lastOp'.id) => lastOp'.found = Null
             /\ (lastOp.op = "delete" /\ lastOp'.id = lastOp.id) => lastOp'.found = Null]_vars

C18_Witness ==
    /\ lastOp.op = "get"
    /\ lastOp.id = uuid(1)
    /\ lastOp.found = Null
    /\ backend = "supabase"
    /\ Len(store) = 1
    /\ store[1].id = Str(uuid(2))

(* C19 as stated: updateSuccess or updateFailure with an id that is not
   stored fails with the not-found error and leaves the store unchanged. *)
C19_AbsentIdFailsNotFound ==
    [][(IsUpdate(lastOp') /\ Absent(lastOp'.id)) =>
         /\ lastOp'.threw
         /\ lastOp'.message = "Report not found: " \o lastOp'.id
         /\ store' = store]_vars

(* C19 amended: with an id that is not stored, updateSuccess and
   updateFailure of the localStorage adapter fail with "Report not found:
   <id>", those of the Postgres, MySQL and Supabase adapters return without
   an error; in both cases the store is unchanged. *)
C19_AbsentId ==
    [][(IsUpdate(lastOp') /\ Absent(lastOp'.id)) =>
         /\ backend = "local" =>
               /\ lastOp'.threw
               /\ lastOp'.message = "Report not found: " \o lastOp'.id
         /\ backend # "local" => ~lastOp'.threw
         /\ store' = store]_vars

C19_Witness ==
    /\ lastOp.op = "updateFailure"
    /\ lastOp.id = "report_0_0000000"
    /\ backend = "postgres"
    /\ ~lastOp.threw
    /\ Len(store) = 2
    /\ \A i \in 1..2 : store[i].status = Str("pending")

\* the reports of a relational store as the localStorage adapter would hold them
asLocalStore(rows) ==
    [i \in 1..Len(rows) |->
        [mapToStoredReport(rows[i]) EXCEPT !.createdAt = Num(rows[i].created_at.v)]]

IdsIn(reports) == [i \in 1..Len(reports) |-> reports[i].id]

(* C20: for the same stored reports and the same {limit, offset} options,
   list of the Postgres, MySQL and Supabase adapters returns what list of
   the localStorage adapter returns: the same total and the same reports
   (the same number of them, and the same ids in the same order when no two
   reports share a creation time), including for no options and for limit
   or offset 0. *)
C20_BackendsListAlike ==
    (lastOp.op = "list" /\ backend # "local" /\ ~Truthy(ListedOption("status"))) =>
        LET local == listLocal(asLocalStore(store), lastOp.options)
        IN  /\ lastOp.response.total = local.total
            /\ Len(Listed) = Len(local.reports)
            /\ (\A i, j \in 1..Len(store) :
                    i # j => store[i].created_at # store[j].created_at)
                  => IdsIn(Listed) = IdsIn(local.reports)

-----------------------------------------------------------------------------
(* The orchestration hook: properties *)

InFlight(i) == calls[i].pc # "settled"
Settled(i) == calls[i].pc = "settled"
Fulfilled(i) == calls[i].promise.state = "fulfilled"
Rejected(i) == calls[i].promise.state = "rejected"
ClientReturned(i) == calls[i].clientOutcome.kind = "returned"
ClientFailed(i) == calls[i].clientOutcome.kind = "thrown"
Happened(i, ev) == \E n \in 1..Len(calls[i].trace) : calls[i].trace[n] = ev
StorageHealthy(i) ==
    ~\E ev \in {"create threw", "updateSuccess threw", "updateFailure threw"} : Happened(i, ev)

\* the row storage.create inserted for invocation i
RowOf(i) == store[findIndex(store, calls[i].reportId.v)]

IsPrefix(s, full) == Len(s) <= Len(full) /\ \A n \in 1..Len(s) : s[n] = full[n]

\* the calls of the success path: each one started, then settled
SuccessOrder ==
    IF hookOptions.storage
    THEN <<"create", "created", "client", "client returned",
           "updateSuccess", "updatedSuccess", "onSuccess">>
    ELSE <<"client", "client returned", "onSuccess">>

OnSuccessPath(ev) == \E n \in 1..Len(SuccessOrder) : SuccessOrder[n] = ev

(* C21: within one invocation the calls of the success path happen in the  *)
(* order storage.create, client call, storage.updateSuccess, success       *)
(* callback, each one starting only after the one before it settled, and   *)
(* updateSuccess is handed the client's results and the duration elapsed   *)
(* since the invocation started.                                           *)
C21_CallsInOrder ==
    \A i \in DOMAIN calls :
        /\ IsPrefix(SelectSeq(calls[i].trace, OnSuccessPath), SuccessOrder)
        /\ calls[i].pc = "updateSuccess" /\ ClientReturned(i) =>
              /\ calls[i].results = calls[i].clientOutcome.value
              /\ calls[i].durationMs = Num(wallClock - calls[i].startTime)

C21_Witness ==
    \E i \in DOMAIN calls :
        /\ hookOptions.storage
        /\ Fulfilled(i)
        /\ calls[i].trace = SuccessOrder
        /\ calls[i].durationMs = Num(1)

\* no invocation was started after invocation i
Latest(i) == i = Len(calls)

(* C22: with a storage adapter and a client call that fails with message   *)
(* m, once generateReport has resolved the record created for the          *)
(* invocation is failed with error m, the hook's error state is m, the     *)
(* error callback was invoked exactly once, with m, and the success        *)
(* callback was not invoked.                                               *)
C22_FailureIsRecordedAndReported ==
    \A i \in DOMAIN calls :
        /\ hookOptions.storage
        /\ ~hookOptions.useServerAction
        /\ ClientFailed(i)
        /\ Fulfilled(i)
        => LET m == Str(calls[i].clientOutcome.message)
           IN  /\ RowOf(i).status = Str("failed")
               /\ RowOf(i).error = m
               /\ Latest(i) => hookError = m
               /\ calls[i].onError = <<m>>
               /\ calls[i].onSuccess = <<>>

C22_Witness ==
    \E i \in DOMAIN calls :
        /\ hookOptions.storage
        /\ ~hookOptions.useServerAction
        /\ calls[i].clientOutcome = ApiError("boom")
        /\ Fulfilled(i)
        /\ RowOf(i).error = Str("boom")
        /\ hookError = Str("boom")

(* C23: the promise generateReport returns never rejects, whichever of     *)
(* storage.create, the client call, storage.updateSuccess,                 *)
(* storage.updateFailure and the callbacks fail.                           *)
C23_NeverRejects == \A i \in DOMAIN calls : ~Rejected(i)

(* C24: isGenerating is true exactly while at least one invocation has     *)
(* started and not yet settled, overlapping invocations included.          *)
C24_GeneratingWhileInFlight == isGenerating <=> \E i \in DOMAIN calls : InFlight(i)

(* C25: generateReport returns the id of the record it created if a        *)
(* storage adapter is configured and null otherwise; without an adapter    *)
(* no storage operation runs and the success callback receives null.       *)
C25_ReturnsRecordId ==
    \A i \in DOMAIN calls :
        Settled(i) =>
            IF hookOptions.storage
            THEN Happened(i, "created") =>
                    /\ Fulfilled(i)
                    /\ calls[i].promise.value = calls[i].reportId
            ELSE /\ Fulfilled(i) => calls[i].promise.value = Null
                 /\ store = <<>>
                 /\ \A n \in 1..Len(calls[i].onSuccess) : calls[i].onSuccess[n] = Null

\* what does hold: the id on success, null on every failure
C25_ReturnsRecordIdOnSuccess ==
    \A i \in DOMAIN calls :
        Fulfilled(i) =>
            calls[i].promise.value =
                IF calls[i].errorMsg = Undef THEN calls[i].reportId ELSE Null

(* C26: MySQLStorageAdapter.create returns the id of the row that very     *)
(* call inserted, however concurrent create calls interleave and whatever  *)
(* created_at values the rows share.                                       *)
C26_CreateReturnsOwnId ==
    \A c \in DOMAIN creating :
        creating[c].pc = "returned" => creating[c].retId = creating[c].inserted

(* C27: for every invocation exactly one of the success callback and the   *)
(* error callback is invoked, exactly once; once the success callback was  *)
(* invoked, neither the error callback nor storage.updateFailure is called *)
(* for that invocation, even if the success callback throws.               *)
C27_ExactlyOneCallback ==
    \A i \in DOMAIN calls :
        /\ Settled(i) => Len(calls[i].onSuccess) + Len(calls[i].onError) = 1
        /\ Len(calls[i].onSuccess) > 0 =>
              /\ calls[i].onError = <<>>
              /\ ~Happened(i, "updateFailure")

(* C28: with a storage adapter whose operations all succeed, once          *)
(* generateReport has settled the record it created is not pending; it is  *)
(* completed with the client's results exactly if the client call          *)
(* returned, and failed with the client's error message exactly if the     *)
(* client call failed.                                                     *)
C28_RecordAgreesWithClient ==
    \A i \in DOMAIN calls :
        /\ hookOptions.storage
        /\ ~hookOptions.useServerAction
        /\ StorageHealthy(i)
        /\ Settled(i)
        => /\ RowOf(i).status # Str("pending")
           /\ ClientReturned(i) <=>
                 /\ RowOf(i).status = Str("completed")
                 /\ RowOf(i).results = calls[i].clientOutcome.value
           /\ ClientFailed(i) <=>
                 /\ RowOf(i).status = Str("failed")
                 /\ RowOf(i).error = Str(calls[i].clientOutcome.message)

(* C29: generateReportAction returns exactly one of { data } and           *)
(* { error }; in server-action mode the hook takes its failure path        *)
(* exactly if the server-side client call failed or was unconfigured,      *)
(* whatever the error message, the empty string included, and otherwise    *)
(* hands a defined results array to storage.updateSuccess.                 *)
C29_ServerActionFailureIsFailure ==
    /\ \A oc \in HookClientOutcomes :
          DOMAIN generateReportAction(oc) \in {{"data"}, {"error"}}
    /\ \A i \in DOMAIN calls :
          (hookOptions.useServerAction /\ calls[i].clientOutcome # NoOutcome) =>
              /\ ClientFailed(i) <=> ~Happened(i, "updateSuccess") /\ ~Happened(i, "onSuccess")
              /\ ClientFailed(i) => calls[i].errorMsg # Undef
              /\ Happened(i, "updateSuccess") => calls[i].results.t = "array"

CallerFields == {"fromDate", "toDate", "promptTemplate", "prompt", "groupBy",
                 "subgroupBy", "orgId", "parameters"}

(* C30: on every adapter, get(id) right after create(data) returned id     *)
(* yields a report that carries every request field the caller supplied    *)
(* (fromDate, toDate, promptTemplate, prompt, groupBy, subgroupBy, orgId,  *)
(* parameters) with the value supplied.                                    *)
C30_RequestFieldsRoundTrip ==
    [][(/\ lastOp.op = "create"
        /\ ~lastOp.threw
        /\ lastOp'.op = "get"
        /\ lastOp'.id = lastOp.retId) =>
          /\ lastOp'.found.t = "object"
          /\ \A k \in CallerFields :
                Prop(lastOp.data, k) # Undef =>
                    Prop(lastOp'.found.f, k) = Prop(lastOp.data, k)]_vars

====
